---- MODULE Spec2Model ----
(***************************************************************************)
(* Scribe (app.py): the Flask routes that tie the document session          *)
(* (core.state.model), the fingerprint store (face_db) and the STEP file    *)
(* on disk together: upload / get_model / test_sample / test_cube,          *)
(* set_color / set_thread / set_tolerance, export, get_holes and            *)
(* admin_clear_metadata.                                                    *)
(*                                                                          *)
(* Python's None is the string "None".  A face id of a request is a record  *)
(* [k, v]: k = "none" (absent / null), "int" (the integer v), "frac" (the   *)
(* JSON number v + 1/2) or "str" (a JSON string).  A metadata record is a   *)
(* function from a subset of {"color", "thread", "tolerance"}.              *)
(***************************************************************************)
EXTENDS Integers, Sequences, FiniteSets, TLC

VARIABLES
    doc,          \* model.doc: "None" or the name of the loaded geometry
    face_shapes,  \* model.face_shapes
    face_hashes,  \* model.face_hashes
    face_raws,    \* model.face_raws
    face_meta,    \* model.face_meta: face id -> metadata record
    model_uuid,   \* model.model_uuid
    store,        \* face_db: fingerprint -> [meta, raw]
    uploads,      \* UPLOAD_FOLDER: file stem -> file, or NoFile
    sample_file,  \* tests/sample.step, or NoFile
    n_uploads,    \* uuid4() values drawn so far
    n_requests,   \* requests handled so far
    trail,        \* history: what has been requested since the last load
                  \*   "boot", "loaded" (a load succeeded, nothing since),
                  \*   "edited" (only set requests since that load),
                  \*   "purged" (a purge naming a document, no set or load
                  \*   request since), "mixed"
    last,         \* history: the last request, where the specification records it
    s_pc,         \* codec run: "text" -> "stripped" -> "extracted"
    s_src,        \* codec run: "embed" (the text embeds s_rec) or "raw"
    s_rec,        \* codec run: the metadata map that was embedded
    s_orig,       \* codec run: the file text before stripping
    s_text,       \* codec run: the file text
    s_out         \* codec run: what extraction returned

vars == <<doc, face_shapes, face_hashes, face_raws, face_meta, model_uuid,
          store, uploads, sample_file, n_uploads, n_requests, trail, last,
          s_pc, s_src, s_rec, s_orig, s_text, s_out>>

codec_vars == <<s_pc, s_src, s_rec, s_orig, s_text, s_out>>
app_vars == <<doc, face_shapes, face_hashes, face_raws, face_meta, model_uuid,
              store, uploads, sample_file, n_uploads, n_requests, trail>>

-----------------------------------------------------------------------------
(* Bounds of the model *)

MaxRequests == 3
MaxUploads == 1
MaxBatch == 2
MaxSegments == 3
MaxShapes == 4

-----------------------------------------------------------------------------
(* Small maps *)

EmptyMap == <<>>

MapPut(f, k, v) == [x \in DOMAIN f \cup {k} |-> IF x = k THEN v ELSE f[x]]

MapDel(f, k) == [x \in DOMAIN f \ {k} |-> f[x]]

\* dict.get(k, {})
MapGet(f, k) == IF k \in DOMAIN f THEN f[k] ELSE EmptyMap

\* Python truthiness of a dict
Truthy(m) == DOMAIN m # {}

Range(s) == {s[i] : i \in 1..Len(s)}

-----------------------------------------------------------------------------
(* Face ids and metadata values *)

IntId(i) == [k |-> "int", v |-> i]
FracId(i) == [k |-> "frac", v |-> i]
NoneId == [k |-> "none", v |-> 0]
StrId == [k |-> "str", v |-> 0]

AttrNames == <<"color", "thread", "tolerance">>

\* a colour hex_to_quantity converts
GoodColor == "#FF0000"

\* request values for a thread / a tolerance: a JSON mapping (with some keys
\* left out, which the handler fills with "")
ThreadMapping == [x \in {"type", "size"} |-> IF x = "type" THEN "M (ISO Metric)" ELSE "M6"]
ToleranceMapping == [x \in {"type"} |-> "H7 (Hole)"]

\* mapping.get(key, "")
DictGet(m, key) == IF key \in DOMAIN m THEN m[key] ELSE ""

\* The value of a request item: "null" (JSON null or absent), "ok" (well
\* formed) or "bad" (a colour hex_to_quantity rejects; for a thread or a
\* tolerance a non-empty JSON string, which has no .get).
ValueKinds == {"null", "ok", "bad"}

-----------------------------------------------------------------------------
(* The text of a STEP file, as a sequence of tokens.  Each token stands for  *)
(* the literal text named beside it; "0" and "1" are payload characters and  *)
(* "A" and "B" their transport (base64) form.                                *)

TagOpen == "[SVFM:"
TagClose == "]"
MetaStart == "/*S "      \* "/* __STEPVIEWER_META_START__ "
MetaEnd == " E*/"        \* " __STEPVIEWER_META_END__ */"
Dri == "DRI"             \* "DESCRIPTIVE_REPRESENTATION_ITEM"
EntityNames == {"SVFM", "StepViewerFaceMetadata"}
Quote == "'"
Ws == " "
Other == "X"             \* text of an unrelated entity
\* the two pieces "[SV" and "FM:" of the opening of a description tag, for
\* a text in which something stands between them
TagHead == "[SV"
TagTail == "FM:"

At(t, i) == IF i \in 1..Len(t) THEN t[i] ELSE "EOF"

\* the least j >= i with t[j] = tok, or 0
RECURSIVE NextTok(_, _, _)
NextTok(t, tok, i) ==
    IF i > Len(t) THEN 0
    ELSE IF t[i] = tok THEN i
    ELSE NextTok(t, tok, i + 1)

\* \s* : the least j >= i that holds no whitespace
RECURSIVE SkipWs(_, _)
SkipWs(t, i) == IF At(t, i) = Ws THEN SkipWs(t, i + 1) ELSE i

\* t restricted to the positions keep (ascending)
Select(t, keep) == [n \in 1..Len(keep) |-> t[keep[n]]]

\* the tag substitution with a pattern that matches only an empty tag
RECURSIVE KeepTagEmptyOnly(_, _)
KeepTagEmptyOnly(t, i) ==
    IF i > Len(t) THEN <<>>
    ELSE IF t[i] = TagOpen /\ At(t, i + 1) = TagClose
         THEN KeepTagEmptyOnly(t, i + 2)
         ELSE <<i>> \o KeepTagEmptyOnly(t, i + 1)

\* re.sub(r"\[SVFM:.*?\]", "", content, flags=re.DOTALL): the positions kept
\* from i on
RECURSIVE KeepTag(_, _)
KeepTag(t, i) ==
    IF i > Len(t) THEN <<>>
    ELSE IF t[i] = TagOpen /\ NextTok(t, TagClose, i + 1) # 0
         THEN KeepTag(t, NextTok(t, TagClose, i + 1) + 1)
         ELSE <<i>> \o KeepTag(t, i + 1)

\* re.sub(r"/\* __STEPVIEWER_META_START__ .*? __STEPVIEWER_META_END__ \*/", ...)
RECURSIVE KeepComment(_, _)
KeepComment(t, i) ==
    IF i > Len(t) THEN <<>>
    ELSE IF t[i] = MetaStart /\ NextTok(t, MetaEnd, i + 1) # 0
         THEN KeepComment(t, NextTok(t, MetaEnd, i + 1) + 1)
         ELSE <<i>> \o KeepComment(t, i + 1)

\* entity_pattern matched at position i: [ok, from, to, end], the payload
\* ([^']*) being t[from..to-1] and the match ending at end
EntityMatch(t, i) ==
    LET a == SkipWs(t, i + 1)
        b == SkipWs(t, a + 1)
        c == SkipWs(t, b + 3)
        d == SkipWs(t, c + 1)
        q == NextTok(t, Quote, d + 1)
        e == SkipWs(t, q + 1)
    IN [ok |-> /\ At(t, i) = Dri
               /\ At(t, a) = "("
               /\ At(t, b) = Quote
               /\ At(t, b + 1) \in EntityNames
               /\ At(t, b + 2) = Quote
               /\ At(t, c) = ","
               /\ At(t, d) = Quote
               /\ q # 0
               /\ At(t, e) = ")",
        from |-> d + 1, to |-> q, end |-> e]

\* re.sub(entity_pattern, r"\1\2", content, flags=re.DOTALL)
RECURSIVE KeepEntity(_, _)
KeepEntity(t, i) ==
    IF i > Len(t) THEN <<>>
    ELSE LET m == EntityMatch(t, i)
         IN IF m.ok
            THEN [n \in 1..(m.from - i) |-> i + n - 1]
                 \o [n \in 1..(m.end - m.to + 1) |-> m.to + n - 1]
                 \o KeepEntity(t, m.end + 1)
            ELSE <<i>> \o KeepEntity(t, i + 1)

\* The three substitutions in the order the purge applies them: the
\* positions of the original text that are kept
StripKeep(t) ==
    LET k1 == KeepTag(t, 1)
        t1 == Select(t, k1)
        k2 == KeepComment(t1, 1)
        t2 == Select(t1, k2)
        k3 == KeepEntity(t2, 1)
    IN [n \in 1..Len(k3) |-> k1[k2[k3[n]]]]

\* The text is a string of characters: pieces a substitution has brought
\* together read as one opening of a description tag
RECURSIVE Fuse(_)
Fuse(t) ==
    IF Len(t) < 2 THEN t
    ELSE IF t[1] = TagHead /\ t[2] = TagTail THEN <<TagOpen>> \o Fuse(SubSeq(t, 3, Len(t)))
    ELSE <<t[1]>> \o Fuse(Tail(t))

StripText(t) == Fuse(Select(t, StripKeep(t)))

-----------------------------------------------------------------------------
(* The metadata codec and the embedding / extraction of core.metadata and   *)
(* core.exporter.                                                            *)

\* the record a set_thread item stores
ThreadRecord(thread) ==
    [type |-> DictGet(thread, "type"), size |-> DictGet(thread, "size"),
     pitch |-> DictGet(thread, "pitch"), class |-> DictGet(thread, "class")]

\* the record a set_tolerance item stores
ToleranceRecord(tol) ==
    [type |-> DictGet(tol, "type"), value |-> DictGet(tol, "value"),
     datum |-> DictGet(tol, "datum")]

AttrValue(a) ==
    CASE a = "color" -> GoodColor
      [] a = "thread" -> ThreadRecord(ThreadMapping)
      [] a = "tolerance" -> ToleranceRecord(ToleranceMapping)

\* every metadata record over the values above
Records == {[a \in D |-> AttrValue(a)] : D \in SUBSET Range(AttrNames)}

\* the face ids a metadata map may hold, and the payload token of each
KeyOrder == <<IntId(0), FracId(0), IntId(1), FracId(1), IntId(2), FracId(2)>>
KeyToks == <<"k0", "k0.5", "k1", "k1.5", "k2", "k2.5">>

KeyIndex(k) == CHOOSE n \in 1..Len(KeyOrder) : KeyOrder[n] = k
TokIndex(tok) == CHOOSE n \in 1..Len(KeyToks) : KeyToks[n] = tok

Bit(b) == IF b THEN "1" ELSE "0"

\* encode(map): for each face id in order, its token and one presence
\* character per attribute
RECURSIVE EncodeFrom(_, _)
EncodeFrom(m, n) ==
    IF n > Len(KeyOrder) THEN <<>>
    ELSE (IF KeyOrder[n] \in DOMAIN m
          THEN <<KeyToks[n]>> \o [a \in 1..3 |-> Bit(AttrNames[a] \in DOMAIN m[KeyOrder[n]])]
          ELSE <<>>) \o EncodeFrom(m, n + 1)

Encode(m) == EncodeFrom(m, 1)

WellFormed(p) ==
    /\ Len(p) % 4 = 0
    /\ Len(p) > 0
    /\ \A g \in 0..(Len(p) \div 4 - 1) :
          /\ p[4 * g + 1] \in Range(KeyToks)
          /\ \A a \in 1..3 : p[4 * g + 1 + a] \in {"0", "1"}

\* decode(payload); a corrupt payload is no metadata
Decode(p) ==
    IF ~WellFormed(p) THEN EmptyMap
    ELSE LET groups == 0..(Len(p) \div 4 - 1)
             groupOf(k) == CHOOSE g \in groups : p[4 * g + 1] = KeyToks[KeyIndex(k)]
         IN [k \in {KeyOrder[TokIndex(p[4 * g + 1])] : g \in groups} |->
                [a \in {AttrNames[n] : n \in {x \in 1..3 : p[4 * groupOf(k) + 1 + x] = "1"}}
                    |-> AttrValue(a)]]

\* the transport (base64) form of a payload and back
ToTransport(c) == CASE c = "0" -> "A" [] c = "1" -> "B" [] OTHER -> c
FromTransport(c) == CASE c = "A" -> "0" [] c = "B" -> "1" [] OTHER -> c
Transport(p) == [n \in 1..Len(p) |-> ToTransport(p[n])]
Untransport(p) == [n \in 1..Len(p) |-> FromTransport(p[n])]

\* a STEP file with nothing embedded: a header and a PRODUCT with a
\* description string
CleanText == <<Other, ";", Other, "(", Quote, Other, Quote, ")", ";">>

\* the exporter's embedding of a metadata map by all three strategies
EmbedText(m) ==
    <<MetaStart>> \o Encode(m) \o <<MetaEnd>>
    \o <<Other, ";", Other, "(", Quote, Other, TagOpen>> \o Transport(Encode(m))
    \o <<TagClose, Quote, ")", ";">>
    \o <<Dri, "(", Quote, "SVFM", Quote, ",", Quote>> \o Encode(m) \o <<Quote, ")", ";">>

\* the first position from i on at which the entity pattern matches, or 0
RECURSIVE FirstEntity(_, _)
FirstEntity(t, i) ==
    IF i > Len(t) THEN 0
    ELSE IF EntityMatch(t, i).ok THEN i
    ELSE FirstEntity(t, i + 1)

Between(t, open, close) ==
    LET i == NextTok(t, open, 1)
        j == IF i = 0 THEN 0 ELSE NextTok(t, close, i + 1)
    IN IF j = 0 THEN <<>> ELSE SubSeq(t, i + 1, j - 1)

\* extract_meta_from_step: the three strategies merged, the entity field
\* first, then the description tag, then the comment block
ExtractMeta(t) ==
    LET i == FirstEntity(t, 1)
        e == IF i = 0 THEN EmptyMap
             ELSE Decode(SubSeq(t, EntityMatch(t, i).from, EntityMatch(t, i).to - 1))
        g == Decode(Untransport(Between(t, TagOpen, TagClose)))
        c == Decode(Between(t, MetaStart, MetaEnd))
    IN [k \in DOMAIN e \cup DOMAIN g \cup DOMAIN c |->
           IF k \in DOMAIN e THEN e[k] ELSE IF k \in DOMAIN g THEN g[k] ELSE c[k]]

-----------------------------------------------------------------------------
(* Geometry, files and the loader (core.loader, core.state, face_db)        *)

\* The parts a STEP file may describe: per face its surface, its
\* fingerprint and its raw descriptor.  Two faces of equal geometry have
\* one fingerprint; "unknown" and "" are what the session holds for a face
\* whose fingerprint could not be derived.
\* (a radius counts units of 0.00001)
Cyl(r) == [type |-> "cylinder", radius |-> r]
Plane == [type |-> "plane", radius |-> 0]

Geometry(g) ==
    CASE g = "partA" ->
           [shapes |-> <<Cyl(5), Cyl(5)>>,
            hashes |-> <<"h1", "h1">>,
            raws |-> <<"cyl:5", "cyl:5">>]
      [] g = "sample" ->
           [shapes |-> <<Cyl(10), Plane>>,
            hashes |-> <<"h2", "unknown">>,
            raws |-> <<"cyl:10", "None">>]
      [] g = "cube" ->
           [shapes |-> <<Plane, Plane>>,
            hashes |-> <<"h3", "">>,
            raws |-> <<"plane", "None">>]

GeometryNames == {"partA", "sample", "cube"}

\* the largest number of faces of a part
MaxFaces ==
    CHOOSE n \in {Len(Geometry(g).shapes) : g \in GeometryNames} :
        \A g \in GeometryNames : Len(Geometry(g).shapes) <= n

\* a file on disk: the part it describes ("corrupt": one the loader
\* rejects) and its text
NoFile == [geom |-> "none", text |-> <<>>]
File(g, t) == [geom |-> g, text |-> t]

\* the metadata map embedded in the files that carry one
EmbeddedMeta == (IntId(0) :> [a \in {"color"} |-> AttrValue(a)])

\* a STEP file whose description holds a description tag inside the pieces
\* of another: "[SV[SVFM:A]FM:<payload>]"
ResidueText ==
    <<Other, ";", Other, "(", Quote, TagHead, TagOpen, "A", TagClose, TagTail>>
    \o Transport(Encode(EmbeddedMeta)) \o <<TagClose, Quote, ")", ";">>

\* `fh and fh != "unknown"`
Known(fh) == fh # "None" /\ fh # "" /\ fh # "unknown"

\* face_db.save_face_meta(fh, meta, raw): upsert
SaveFaceMeta(st, fh, meta, raw) == MapPut(st, fh, [meta |-> meta, raw |-> raw])

\* face_db.delete_faces(hashes): absent fingerprints are ignored
DeleteFaces(st, hashes) == [h \in DOMAIN st \ Range(hashes) |-> st[h]]

\* face_db.clear_database()
ClearDatabase(st) == EmptyMap

\* The session as a record
Session(d, shapes, hashes, raws, meta, uuid) ==
    [doc |-> d, face_shapes |-> shapes, face_hashes |-> hashes,
     face_raws |-> raws, face_meta |-> meta, model_uuid |-> uuid]

Current == Session(doc, face_shapes, face_hashes, face_raws, face_meta, model_uuid)

\* model.reset()
Reset == Session("None", <<>>, <<>>, <<>>, EmptyMap, "None")

\* the metadata map a load hydrates: per face the store's record of its
\* fingerprint when that is known and stored, else the record the file
\* embeds for that face index
Hydrate(hashes, st, embedded) ==
    LET fromStore(i) == Known(hashes[i + 1]) /\ hashes[i + 1] \in DOMAIN st
        faces == {i \in 0..(Len(hashes) - 1) : fromStore(i) \/ IntId(i) \in DOMAIN embedded}
    IN [k \in {IntId(i) : i \in faces} |->
           IF fromStore(k.v) THEN st[hashes[k.v + 1]].meta ELSE embedded[k]]

LoadFails(f) == f.geom \notin GeometryNames

\* load_step_xcaf(path) on a file the loader accepts: the session it leaves
\* (the document identifier is not the loader's)
LoadStepXcaf(f, st, uuid) ==
    LET g == Geometry(f.geom)
    IN Session(f.geom, g.shapes, g.hashes, g.raws,
               Hydrate(g.hashes, st, ExtractMeta(f.text)), uuid)

-----------------------------------------------------------------------------
(* The set_color / set_thread / set_tolerance loops.  A run is              *)
(* [face_meta, store, count, code]: code 200 while the loop runs, 500 once   *)
(* an exception has left the handler.                                        *)

Item(id, value) == [face_id |-> id, value |-> value]

FaceIdInputs == {NoneId, StrId, FracId(0)} \cup {IntId(i) : i \in -1..MaxFaces}

Items == {Item(id, v) : id \in FaceIdInputs, v \in ValueKinds}

Run(fm, st, n, c) == [face_meta |-> fm, store |-> st, count |-> n, code |-> c]

\* the range check with its upper bound off by one
OutOfRangeOffByOne(id) == id.v < 0 \/ id.v > Len(face_shapes)

\* `face_id < 0 or face_id >= len(model.face_shapes)` on a number (v + 1/2
\* for a "frac" id)
OutOfRange(id) == id.v < 0 \/ id.v >= Len(face_shapes)

\* model.face_meta.setdefault(face_id, {})[attr] = value
SetAttr(fm, id, attr, value) == MapPut(fm, id, MapPut(MapGet(fm, id), attr, value))

\* the removal that keeps a record it has emptied
PopAttrKeepEmpty(fm, id, attr) ==
    IF id \notin DOMAIN fm THEN fm
    ELSE MapPut(fm, id, MapDel(fm[id], attr))

\* model.face_meta[face_id].pop(attr, None), and the record deleted when
\* that leaves it empty
PopAttr(fm, id, attr) ==
    IF id \notin DOMAIN fm THEN fm
    ELSE IF Truthy(MapDel(fm[id], attr)) THEN MapPut(fm, id, MapDel(fm[id], attr))
    ELSE MapDel(fm, id)

\* the persist block without the test for the "unknown" fingerprint
PersistUnknownToo(r, id) ==
    IF id.v < Len(face_hashes)
       /\ face_hashes[id.v + 1] \notin {"None", ""}
       /\ Truthy(MapGet(r.face_meta, id))
    THEN Run(r.face_meta,
             SaveFaceMeta(r.store, face_hashes[id.v + 1], MapGet(r.face_meta, id),
                          IF id.v < Len(face_raws) THEN face_raws[id.v + 1] ELSE "None"),
             r.count + 1, r.code)
    ELSE r

\* The persist block shared by the three handlers, for an integer face id:
\* the record of the face is saved under its fingerprint when the
\* fingerprint is known and the record is not empty
Persist(r, id) ==
    IF id.v < Len(face_hashes)
       /\ Known(face_hashes[id.v + 1])
       /\ Truthy(MapGet(r.face_meta, id))
    THEN Run(r.face_meta,
             SaveFaceMeta(r.store, face_hashes[id.v + 1], MapGet(r.face_meta, id),
                          IF id.v < Len(face_raws) THEN face_raws[id.v + 1] ELSE "None"),
             r.count + 1, r.code)
    ELSE r

\* one item of the set_color loop
ColorItem(r, item) ==
    IF item.face_id.k = "none" \/ item.value = "null" THEN r
    ELSE IF item.face_id.k = "str" THEN Run(r.face_meta, r.store, r.count, 500)
    ELSE IF OutOfRange(item.face_id) THEN r
    \* inside try: hex_to_quantity(hex_color) and model.face_labels[face_id]
    \* raise, and the except clause continues with the next item
    ELSE IF item.value = "bad" \/ item.face_id.k = "frac" THEN r
    ELSE Persist(Run(SetAttr(r.face_meta, item.face_id, "color", GoodColor),
                     r.store, r.count, r.code), item.face_id)

\* one item of the set_thread (attr = "thread") or set_tolerance
\* (attr = "tolerance") loop; stored is the record built from the mapping
MappingItem(r, item, attr, stored) ==
    IF item.face_id.k = "none" THEN r
    ELSE IF item.face_id.k = "str" THEN Run(r.face_meta, r.store, r.count, 500)
    ELSE IF OutOfRange(item.face_id) THEN r
    \* a string has no .get: the exception leaves the handler
    ELSE IF item.value = "bad" THEN Run(r.face_meta, r.store, r.count, 500)
    ELSE LET fm == IF item.value = "ok"
                   THEN SetAttr(r.face_meta, item.face_id, attr, stored)
                   ELSE PopAttr(r.face_meta, item.face_id, attr)
         IN \* model.face_hashes[face_id] raises on a number that is no integer
            IF item.face_id.k = "frac" /\ item.face_id.v < Len(face_hashes)
            THEN Run(fm, r.store, r.count, 500)
            ELSE Persist(Run(fm, r.store, r.count, r.code), item.face_id)

ThreadItem(r, item) == MappingItem(r, item, "thread", ThreadRecord(ThreadMapping))

ToleranceItem(r, item) == MappingItem(r, item, "tolerance", ToleranceRecord(ToleranceMapping))

ApplyItem(handler, r, item) ==
    CASE handler = "set_color" -> ColorItem(r, item)
      [] handler = "set_thread" -> ThreadItem(r, item)
      [] handler = "set_tolerance" -> ToleranceItem(r, item)

\* `for item in updates`, from item n on; an exception ends the loop
RECURSIVE Loop(_, _, _, _)
Loop(handler, r, updates, n) ==
    IF n > Len(updates) \/ r.code # 200 THEN r
    ELSE Loop(handler, ApplyItem(handler, r, updates[n]), updates, n + 1)

\* the whole loop of a handler on the current session and store
RunUpdates(handler, updates) == Loop(handler, Run(face_meta, store, 0, 200), updates, 1)

-----------------------------------------------------------------------------
(* Requests.  Each handler is an operator from the current state and the    *)
(* request to an Outcome: the session, store and files it leaves and the     *)
(* response it returns.                                                      *)

Response(code, err, count, file) == [code |-> code, err |-> err, count |-> count, file |-> file]

Reply(code, err) == Response(code, err, 0, <<>>)

Outcome(s, st, up, sf, r) ==
    [session |-> s, store |-> st, uploads |-> up, sample_file |-> sf, resp |-> r]

\* a request that changes nothing
Unchanged(r) == Outcome(Current, store, uploads, sample_file, r)

IsError(o) == o.resp.code # 200

\* uuid.uuid4().hex, by the number of uuids drawn before
UuidNames == <<"u1", "u2", "u3">>

\* the files a client uploads
UploadFiles ==
    {File("partA", CleanText), File("partA", EmbedText(EmbeddedMeta)), File("corrupt", CleanText)}

\* upload() of the file f
UploadResult(f) ==
    LET save_name == UuidNames[n_uploads + 1]
    IN IF LoadFails(f)
       THEN Outcome(Reset, store, uploads, sample_file, Reply(500, "load failed"))
       ELSE Outcome(LoadStepXcaf(f, store, save_name), store, MapPut(uploads, save_name, f),
                    sample_file, Reply(200, ""))

\* get_model(uuid_str)
GetModelResult(uuid_str) ==
    IF uuid_str \notin DOMAIN uploads
    THEN Unchanged(Reply(404, "Model not found"))
    ELSE IF LoadFails(uploads[uuid_str])
    THEN Outcome([Reset EXCEPT !.model_uuid = uuid_str], store, uploads, sample_file,
                 Reply(500, "load failed"))
    ELSE Outcome(LoadStepXcaf(uploads[uuid_str], store, uuid_str), store, uploads, sample_file,
                 Reply(200, ""))

\* test_cube(): ok is whether cadquery wrote the box and the loader read it
TestCubeResult(ok) ==
    IF ok
    THEN Outcome(LoadStepXcaf(File("cube", CleanText), store, model_uuid), store, uploads,
                 sample_file, Reply(200, ""))
    ELSE Unchanged(Reply(500, "load failed"))

\* test_sample()
TestSampleResult ==
    IF sample_file = NoFile
    THEN Unchanged(Reply(404, "Sample file not found"))
    ELSE IF LoadFails(sample_file)
    THEN Outcome([Current EXCEPT !.model_uuid = "sample"], store, uploads, sample_file,
                 Reply(500, "load failed"))
    ELSE Outcome(LoadStepXcaf(sample_file, store, "sample"), store, uploads, sample_file,
                 Reply(200, ""))

\* the handler without its test for a loaded document
SetResultUnguarded(handler, updates) ==
    LET r == RunUpdates(handler, updates)
    IN Outcome([Current EXCEPT !.face_meta = r.face_meta], r.store, uploads, sample_file,
               IF r.code = 200 THEN Response(200, "", r.count, <<>>)
               ELSE Reply(500, "exception"))

\* set_color / set_thread / set_tolerance with the list updates
SetResult(handler, updates) ==
    IF doc = "None"
    THEN Unchanged(Reply(400, "No model loaded"))
    ELSE LET r == RunUpdates(handler, updates)
         IN Outcome([Current EXCEPT !.face_meta = r.face_meta], r.store, uploads, sample_file,
                    IF r.code = 200 THEN Response(200, "", r.count, <<>>)
                    ELSE Reply(500, "exception"))

\* the handler with the clean-up of upload() in its except clause
ExportResultResetOnFailure(ok) ==
    IF doc = "None" THEN Unchanged(Reply(400, "No model loaded"))
    ELSE IF ok THEN Unchanged(Response(200, "", 0, EmbedText(face_meta)))
    ELSE Outcome(Reset, store, uploads, sample_file, Reply(500, "export failed"))

\* export_step(): ok is whether export_step_xcaf wrote the file
ExportResult(ok) ==
    IF doc = "None" THEN Unchanged(Reply(400, "No model loaded"))
    ELSE IF ok THEN Unchanged(Response(200, "", 0, EmbedText(face_meta)))
    ELSE Unchanged(Reply(500, "export failed"))

\* round(x, 4) of a diameter x counted in units of 0.00001: the nearest
\* multiple of 10 (a doubled radius is even, so never half-way)
Round4(x) == 10 * ((x + 5) \div 10)

\* get_cylinder_info(face_shape); type "None" stands for None
CylinderInfo(shape) ==
    IF shape.type = "cylinder"
    THEN [type |-> "cylinder", diameter |-> Round4(shape.radius * 2)]
    ELSE [type |-> "None", diameter |-> 0]

\* `grouped`: the diameters in the order of their first face, and the ids
\* of each
NoGroups == [order |-> <<>>, ids |-> EmptyMap]

\* grouped.setdefault(d, []).append(i)
Append1(grouped, d, i) ==
    [order |-> IF d \in DOMAIN grouped.ids THEN grouped.order ELSE Append(grouped.order, d),
     ids |-> MapPut(grouped.ids, d,
                    Append(IF d \in DOMAIN grouped.ids THEN grouped.ids[d] ELSE <<>>, i))]

\* `for i, shape in enumerate(model.face_shapes)`, from face i on
RECURSIVE Grouped(_, _, _)
Grouped(shapes, i, grouped) ==
    IF i >= Len(shapes) THEN grouped
    ELSE Grouped(shapes, i + 1,
                 IF CylinderInfo(shapes[i + 1]).type = "None" THEN grouped
                 ELSE Append1(grouped, CylinderInfo(shapes[i + 1]).diameter, i))

\* result.append({"diameter": d, "ids": ids, "count": len(ids)}) for every
\* item of grouped
Groups(grouped) ==
    [n \in 1..Len(grouped.order) |->
        [diameter |-> grouped.order[n], ids |-> grouped.ids[grouped.order[n]],
         count |-> Len(grouped.ids[grouped.order[n]])]]

\* the list of groups left in the order of `grouped`
Unsorted(result) == result

\* result.sort(key=lambda x: x["diameter"]): the n-th group is the one with
\* n - 1 groups before it, a group of equal diameter staying behind those
\* that precede it in the list
SortByDiameter(result) ==
    LET before(a, b) ==
            \/ result[a].diameter < result[b].diameter
            \/ result[a].diameter = result[b].diameter /\ a < b
        rank(a) == 1 + Cardinality({b \in 1..Len(result) : before(b, a)})
    IN [n \in 1..Len(result) |-> result[CHOOSE a \in 1..Len(result) : rank(a) = n]]

\* the list of groups get_holes returns for the faces shapes
Holes(shapes) == SortByDiameter(Groups(Grouped(shapes, 0, NoGroups)))

HolesResponse(holes) == [code |-> 200, err |-> "", holes |-> holes]

\* get_holes()
GetHolesResult ==
    IF doc = "None" THEN Unchanged(Reply(400, "No model loaded"))
    ELSE Unchanged(HolesResponse(Holes(face_shapes)))

\* the STEP file admin_clear_metadata resolves for target_uuid: the one
\* in the upload folder, else tests/sample.step for "sample"
ResolveFile(target_uuid) ==
    IF target_uuid \in DOMAIN uploads THEN uploads[target_uuid]
    ELSE IF target_uuid = "sample" THEN sample_file
    ELSE NoFile

Scopes == {"db", "file", "all"}

\* the database cleanup that treats scope "all" like scope "db"
CleanStoreAllAsDb(scope, hashes, st) ==
    IF scope \in {"db", "all"} THEN DeleteFaces(st, SelectSeq(hashes, Known))
    ELSE st

\* the database cleanup run whatever the scope
CleanStoreEveryScope(scope, hashes, st) ==
    IF scope = "all" THEN ClearDatabase(st)
    ELSE DeleteFaces(st, SelectSeq(hashes, Known))

\* "1. Database cleanup": the store it leaves, hashes being
\* model.face_hashes
CleanStore(scope, hashes, st) ==
    IF scope = "all" THEN ClearDatabase(st)
    ELSE IF scope = "db" THEN DeleteFaces(st, SelectSeq(hashes, Known))
    ELSE st

\* the verification that answers with an error when it detects metadata
ReportedAsError(after_meta, o) ==
    IF Truthy(after_meta) THEN [o EXCEPT !.resp = Reply(500, "Metadata still detected")]
    ELSE o

\* "Verify AFTER": metadata the extraction still finds is logged as a
\* warning; the handler goes on to the outcome o either way
Reported(after_meta, o) == IF Truthy(after_meta) THEN o ELSE o

\* admin_clear_metadata() with {"uuid": target_uuid, "scope": scope}
ClearMetadata(target_uuid, scope) ==
    LET f == ResolveFile(target_uuid)
        load == model_uuid # target_uuid
        s0 == IF load THEN [Reset EXCEPT !.model_uuid = target_uuid] ELSE Current
        s1 == IF load THEN LoadStepXcaf(f, store, target_uuid) ELSE Current
        st1 == CleanStore(scope, s1.face_hashes, store)
        deleted_count == IF scope = "db" THEN Len(SelectSeq(s1.face_hashes, Known)) ELSE 0
        stripped == File(f.geom, StripText(f.text))
        cleanFiles == scope \in {"file", "all"}
        cleared == Outcome([s1 EXCEPT !.face_meta = EmptyMap], st1,
                           IF cleanFiles /\ target_uuid \in DOMAIN uploads
                           THEN MapPut(uploads, target_uuid, stripped) ELSE uploads,
                           IF cleanFiles /\ target_uuid \notin DOMAIN uploads
                           THEN stripped ELSE sample_file,
                           Response(200, "", deleted_count, <<>>))
    IN IF target_uuid = "None"
       THEN Unchanged(Reply(400, "UUID required"))
       ELSE IF load /\ f = NoFile
       THEN Outcome(s0, store, uploads, sample_file, Reply(404, "Model not found on server"))
       ELSE IF load /\ LoadFails(f)
       THEN Outcome(s0, store, uploads, sample_file, Reply(500, "Failed to load model"))
       ELSE IF cleanFiles /\ f = NoFile
       THEN Outcome(s1, st1, uploads, sample_file, Reply(404, "STEP file not found on server"))
       ELSE IF cleanFiles THEN Reported(ExtractMeta(stripped.text), cleared)
       ELSE cleared

-----------------------------------------------------------------------------
(* The application *)

\* every request is counted; the model stops after MaxRequests of them
Request == n_requests < MaxRequests /\ n_requests' = n_requests + 1

\* the state a handler leaves
Becomes(o) ==
    /\ doc' = o.session.doc
    /\ face_shapes' = o.session.face_shapes
    /\ face_hashes' = o.session.face_hashes
    /\ face_raws' = o.session.face_raws
    /\ face_meta' = o.session.face_meta
    /\ model_uuid' = o.session.model_uuid
    /\ store' = o.store
    /\ uploads' = o.uploads
    /\ sample_file' = o.sample_file

\* the history after a load request and after a set request
AfterLoad(o) == IF IsError(o) THEN "mixed" ELSE "loaded"

AfterSet == IF trail \in {"loaded", "edited"} THEN "edited" ELSE "mixed"

\* upload() of a request that carries no usable file
UploadRejected(err) ==
    /\ Request
    /\ Becomes(Unchanged(Reply(400, err)))
    /\ UNCHANGED <<n_uploads, trail, codec_vars>>

Upload(f) ==
    /\ Request
    /\ n_uploads < MaxUploads /\ n_uploads < Len(UuidNames)
    /\ Becomes(UploadResult(f))
    /\ n_uploads' = n_uploads + 1
    /\ trail' = AfterLoad(UploadResult(f))
    /\ UNCHANGED codec_vars

GetModel(uuid_str) ==
    /\ Request
    /\ Becomes(GetModelResult(uuid_str))
    /\ trail' = AfterLoad(GetModelResult(uuid_str))
    /\ UNCHANGED <<n_uploads, codec_vars>>

TestCube(ok) ==
    /\ Request
    /\ Becomes(TestCubeResult(ok))
    /\ trail' = AfterLoad(TestCubeResult(ok))
    /\ UNCHANGED <<n_uploads, codec_vars>>

TestSample ==
    /\ Request
    /\ Becomes(TestSampleResult)
    /\ trail' = AfterLoad(TestSampleResult)
    /\ UNCHANGED <<n_uploads, codec_vars>>

SetColor(updates) ==
    /\ Request
    /\ Becomes(SetResult("set_color", updates))
    /\ trail' = AfterSet
    /\ UNCHANGED <<n_uploads, codec_vars>>

SetThread(updates) ==
    /\ Request
    /\ Becomes(SetResult("set_thread", updates))
    /\ trail' = AfterSet
    /\ UNCHANGED <<n_uploads, codec_vars>>

SetTolerance(updates) ==
    /\ Request
    /\ Becomes(SetResult("set_tolerance", updates))
    /\ trail' = AfterSet
    /\ UNCHANGED <<n_uploads, codec_vars>>

ExportStep(ok) ==
    /\ Request
    /\ Becomes(ExportResult(ok))
    /\ UNCHANGED <<n_uploads, trail, codec_vars>>

GetHoles ==
    /\ Request
    /\ Becomes(GetHolesResult)
    /\ UNCHANGED <<n_uploads, trail, codec_vars>>

AdminClearMetadata(target_uuid, scope) ==
    /\ Request
    /\ Becomes(ClearMetadata(target_uuid, scope))
    /\ trail' = IF target_uuid = "None" THEN trail ELSE "purged"
    /\ UNCHANGED <<n_uploads, codec_vars>>

\* the upload folder holds one file of an earlier run, which the loader of
\* this run may reject; tests/sample.step may be missing or unreadable
PersistedFiles == UploadFiles

SampleFiles == {NoFile, File("sample", CleanText), File("corrupt", CleanText)}

\* the face database outlives the process: it starts empty or with the
\* record an earlier run saved for a face of the test cube
PersistedStores ==
    {EmptyMap, SaveFaceMeta(EmptyMap, "h3", [a \in {"color"} |-> AttrValue(a)], "plane")}

\* the document identifiers requests name: the persisted file, the sample,
\* the uuids drawn so far and one that names no file
Stems == {"p1", "sample", "ghost"} \cup {UuidNames[n] : n \in 1..n_uploads}

\* the update lists of a set request: one item (the single-update form of
\* the request, or a list of one)
Singles == {<<i>> : i \in Items}

\* no set request recorded
NoRequest ==
    [handler |-> "none", updates |-> <<>>, face_meta |-> EmptyMap, store |-> EmptyMap,
     code |-> 0, count |-> 0]

\* the process has started: an empty session, the store and the files as
\* found, nothing requested yet
Idle(st, up, sf) ==
    /\ doc = Reset.doc
    /\ face_shapes = Reset.face_shapes
    /\ face_hashes = Reset.face_hashes
    /\ face_raws = Reset.face_raws
    /\ face_meta = Reset.face_meta
    /\ model_uuid = Reset.model_uuid
    /\ store = st
    /\ uploads = up
    /\ sample_file = sf
    /\ n_uploads = 0
    /\ n_requests = 0
    /\ trail = "boot"
    /\ last = NoRequest

\* no file clean-up is followed on its own
CodecOff ==
    /\ s_pc = "off" /\ s_src = "none" /\ s_rec = EmptyMap
    /\ s_orig = <<>> /\ s_text = <<>> /\ s_out = EmptyMap

Init ==
    /\ \E st \in PersistedStores, f \in PersistedFiles, sf \in SampleFiles :
          Idle(st, "p1" :> f, sf)
    /\ CodecOff

Next ==
    \/ \E err \in {"No file part", "No selected file", "Only .step / .stp files are supported"} :
          UploadRejected(err) /\ UNCHANGED last
    \/ \E f \in UploadFiles : Upload(f) /\ UNCHANGED last
    \/ \E u \in Stems : GetModel(u) /\ UNCHANGED last
    \/ \E ok \in BOOLEAN : TestCube(ok) /\ UNCHANGED last
    \/ TestSample /\ UNCHANGED last
    \/ \E u \in Singles : SetColor(u) /\ UNCHANGED last
    \/ \E u \in Singles : SetThread(u) /\ UNCHANGED last
    \/ \E u \in Singles : SetTolerance(u) /\ UNCHANGED last
    \/ \E ok \in BOOLEAN : ExportStep(ok) /\ UNCHANGED last
    \/ GetHoles /\ UNCHANGED last
    \/ \E u \in Stems \cup {"None"}, scope \in Scopes :
          AdminClearMetadata(u, scope) /\ UNCHANGED last

Spec == Init /\ [][Next]_vars

-----------------------------------------------------------------------------
(* Batches.  SpecBatch starts with a store and files that hold metadata,  *)
(* serves one load request and then one set request whose list holds up to   *)
(* MaxBatch items, and records that request in `last`: the handler, the      *)
(* list, the metadata map and the store it found, and the response.          *)

Batches == UNION {[1..n -> Items] : n \in 1..MaxBatch}

Recorded(handler, updates) ==
    LET resp == SetResult(handler, updates).resp
    IN [handler |-> handler, updates |-> updates, face_meta |-> face_meta, store |-> store,
        code |-> resp.code, count |-> resp.count]

InitBatch ==
    /\ Idle(SaveFaceMeta(EmptyMap, "h3", [a \in {"color"} |-> AttrValue(a)], "plane"),
            "p1" :> File("partA", EmbedText(EmbeddedMeta)),
            File("sample", CleanText))
    /\ CodecOff

LoadTurn == trail = "boot"

BatchTurn == trail = "loaded" /\ last = NoRequest

NextBatch ==
    \/ LoadTurn /\ \E f \in UploadFiles : Upload(f) /\ UNCHANGED last
    \/ LoadTurn /\ \E u \in Stems : GetModel(u) /\ UNCHANGED last
    \/ LoadTurn /\ TestCube(TRUE) /\ UNCHANGED last
    \/ LoadTurn /\ TestSample /\ UNCHANGED last
    \/ BatchTurn /\ \E u \in Batches : SetColor(u) /\ last' = Recorded("set_color", u)
    \/ BatchTurn /\ \E u \in Batches : SetThread(u) /\ last' = Recorded("set_thread", u)
    \/ BatchTurn /\ \E u \in Batches :
          SetTolerance(u) /\ last' = Recorded("set_tolerance", u)

SpecBatch == InitBatch /\ [][NextBatch]_vars

-----------------------------------------------------------------------------
(* Purges.  SpecPurge starts with a store that holds a record for a face of *)
(* every part and with files that hold metadata, serves requests as Spec     *)
(* does and ends with a purge that it records in `last`: the request, the    *)
(* session, store and files it found, and the response.                      *)

\* a request on record, with the state it found and its response
Audited(handler, args, o) ==
    [handler |-> handler, args |-> args, session |-> Current, store |-> store,
     uploads |-> uploads, sample_file |-> sample_file, resp |-> o.resp]

\* the store of earlier runs: one record per known fingerprint
FullStore ==
    [h \in {"h1", "h2", "h3"} |-> [meta |-> [a \in {"color"} |-> AttrValue(a)], raw |-> "None"]]

\* the persisted file: one the exporter wrote, one whose description holds
\* a tag inside the pieces of another, one the loader rejects
PurgeFiles ==
    {File("partA", EmbedText(EmbeddedMeta)), File("partA", ResidueText),
     File("corrupt", EmbedText(EmbeddedMeta))}

InitPurge ==
    /\ \E f \in PurgeFiles, sf \in {NoFile, File("sample", EmbedText(EmbeddedMeta))} :
          Idle(FullStore, "p1" :> f, sf)
    /\ CodecOff

\* no request is on record yet
Serving == last.handler = "none"

NextPurge ==
    \/ Serving /\ \E f \in UploadFiles : Upload(f) /\ UNCHANGED last
    \/ Serving /\ \E u \in Stems : GetModel(u) /\ UNCHANGED last
    \/ Serving /\ \E ok \in BOOLEAN : TestCube(ok) /\ UNCHANGED last
    \/ Serving /\ TestSample /\ UNCHANGED last
    \/ Serving /\ \E u \in Singles : SetColor(u) /\ UNCHANGED last
    \/ Serving /\ \E u \in Singles : SetThread(u) /\ UNCHANGED last
    \/ Serving /\ \E u \in Singles : SetTolerance(u) /\ UNCHANGED last
    \/ Serving /\ \E u \in Stems, scope \in Scopes :
          AdminClearMetadata(u, scope) /\ UNCHANGED last
    \/ Serving /\ \E u \in Stems \cup {"None"}, scope \in Scopes :
          /\ AdminClearMetadata(u, scope)
          /\ last' = Audited("admin_clear_metadata", [uuid |-> u, scope |-> scope],
                             ClearMetadata(u, scope))

SpecPurge == InitPurge /\ [][NextPurge]_vars

-----------------------------------------------------------------------------
(* Requests that are to leave the state alone.  SpecFrame starts as         *)
(* SpecPurge does, serves load, set and purge requests and ends with a       *)
(* request that it records in `last`: an export, a get_holes, or a set       *)
(* request that finds no document loaded.                                    *)

NotLoaded == doc = "None"

NextFrame ==
    \/ Serving /\ \E f \in UploadFiles : Upload(f) /\ UNCHANGED last
    \/ Serving /\ \E u \in Stems : GetModel(u) /\ UNCHANGED last
    \/ Serving /\ \E ok \in BOOLEAN : TestCube(ok) /\ UNCHANGED last
    \/ Serving /\ TestSample /\ UNCHANGED last
    \/ Serving /\ \E u \in Singles : SetColor(u) /\ UNCHANGED last
    \/ Serving /\ \E u \in Singles : SetThread(u) /\ UNCHANGED last
    \/ Serving /\ \E u \in Singles : SetTolerance(u) /\ UNCHANGED last
    \/ Serving /\ \E u \in Stems, scope \in Scopes :
          AdminClearMetadata(u, scope) /\ UNCHANGED last
    \/ Serving /\ NotLoaded /\ \E u \in Singles :
          SetColor(u) /\ last' = Audited("set_color", u, SetResult("set_color", u))
    \/ Serving /\ NotLoaded /\ \E u \in Singles :
          SetThread(u) /\ last' = Audited("set_thread", u, SetResult("set_thread", u))
    \/ Serving /\ NotLoaded /\ \E u \in Singles :
          SetTolerance(u) /\ last' = Audited("set_tolerance", u, SetResult("set_tolerance", u))
    \/ Serving /\ \E ok \in BOOLEAN :
          ExportStep(ok) /\ last' = Audited("export_step", ok, ExportResult(ok))
    \/ Serving /\ GetHoles /\ last' = Audited("get_holes", <<>>, GetHolesResult)

SpecFrame == InitPurge /\ [][NextFrame]_vars

-----------------------------------------------------------------------------
(* get_holes on its own.  SpecHoles starts with a loaded document of up to  *)
(* MaxShapes faces, planar or cylindrical, and serves one get_holes request  *)
(* that it records in `last`.                                                *)

\* the faces of a part: planes, and cylinders of which two differ in radius
\* by 0.00001
HoleShapes == {Plane, Cyl(5), Cyl(6), Cyl(10)}

ShapeLists == UNION {[1..n -> HoleShapes] : n \in 0..MaxShapes}

InitHoles ==
    /\ doc = "part"
    /\ face_shapes \in ShapeLists
    /\ face_hashes = [n \in 1..Len(face_shapes) |-> "unknown"]
    /\ face_raws = [n \in 1..Len(face_shapes) |-> "None"]
    /\ face_meta = EmptyMap
    /\ model_uuid = "None"
    /\ store = EmptyMap
    /\ uploads = EmptyMap
    /\ sample_file = NoFile
    /\ n_uploads = 0
    /\ n_requests = 0
    /\ trail = "loaded"
    /\ last = NoRequest
    /\ CodecOff

NextHoles == Serving /\ GetHoles /\ last' = Audited("get_holes", <<>>, GetHolesResult)

SpecHoles == InitHoles /\ [][NextHoles]_vars

-----------------------------------------------------------------------------
(* The file clean-up of the purge on its own.  SpecStrip starts from a file *)
(* text (one in which the exporter embedded a metadata map, or one put       *)
(* together from segments), strips it as the purge does and extracts from    *)
(* the result as the purge's verification does.                              *)

\* the metadata maps the exporter may be handed
MetaMaps ==
    UNION {[D -> Records \ {EmptyMap}] : D \in SUBSET {IntId(0), IntId(1), FracId(0)}}

\* pieces of STEP text: a description tag, a tag cut short, a comment
\* block, the metadata entity in both spellings, the same entity type under
\* another name, and unrelated entities
Segments ==
    {<<TagOpen, "A", TagClose>>,
     <<TagOpen, "A">>,
     <<MetaStart, "0", MetaEnd>>,
     <<Dri, "(", Quote, "SVFM", Quote, ",", Quote, "0", Quote, ")", ";">>,
     <<Dri, Ws, "(", Quote, "StepViewerFaceMetadata", Quote, ",", Ws, Quote, "0", Quote, Ws,
       ")", ";">>,
     <<Dri, "(", Quote, Other, Quote, ",", Quote, "0", Quote, ")", ";">>,
     <<Other, "(", Quote, Other, Quote, ")", ";">>,
     <<Other, "(", Quote, Other, TagClose, Quote, ")", ";">>}

RECURSIVE Concat(_, _)
Concat(segs, n) == IF n > Len(segs) THEN <<>> ELSE segs[n] \o Concat(segs, n + 1)

RawTexts == {Concat(segs, 1) : segs \in UNION {[1..n -> Segments] : n \in 1..MaxSegments}}

InitStrip ==
    /\ Idle(EmptyMap, EmptyMap, NoFile)
    /\ s_pc = "text"
    /\ \/ s_src = "embed" /\ s_rec \in MetaMaps /\ s_orig = EmbedText(s_rec)
       \/ s_src = "raw" /\ s_rec = EmptyMap /\ s_orig \in RawTexts
    /\ s_text = s_orig
    /\ s_out = EmptyMap

\* the three substitutions on the file text
StripFile ==
    /\ s_pc = "text"
    /\ s_text' = StripText(s_text)
    /\ s_pc' = "stripped"
    /\ UNCHANGED <<app_vars, last, s_src, s_rec, s_orig, s_out>>

\* "Verify AFTER": extraction from the stripped file
VerifyAfter ==
    /\ s_pc = "stripped"
    /\ s_out' = ExtractMeta(s_text)
    /\ s_pc' = "extracted"
    /\ UNCHANGED <<app_vars, last, s_src, s_rec, s_orig, s_text>>

NextStrip == StripFile \/ VerifyAfter

SpecStrip == InitStrip /\ [][NextStrip]_vars

-----------------------------------------------------------------------------
(* Properties of the request handlers.  A handler is the operator its      *)
(* action applies, so a property of every step that serves a request is     *)
(* stated on the outcome of the operator in every reachable state.          *)

Handlers == {"set_color", "set_thread", "set_tolerance"}

\* the attribute a handler sets
AttrOf(handler) ==
    CASE handler = "set_color" -> "color"
      [] handler = "set_thread" -> "thread"
      [] handler = "set_tolerance" -> "tolerance"

\* the faces of the loaded document, and those with a usable fingerprint
Faces == 0..(Len(face_shapes) - 1)

KnownFaces == {i \in Faces : i < Len(face_hashes) /\ Known(face_hashes[i + 1])}

\* C1 (purge invariant): in every reachable state a purge request naming a
\* document, of any scope, leaves the in-memory metadata map empty,
\* whatever response it returns.
C1_PurgeLeavesMapEmpty ==
    \A u \in Stems, scope \in Scopes :
        ClearMetadata(u, scope).session.face_meta = EmptyMap

\* C2 (empty-record deletion): when a set_thread or set_tolerance request
\* with a null value removes the last attribute of the record of a face
\* whose fingerprint is known, the store afterwards has no entry for that
\* fingerprint.
C2_EmptyRecordLeavesStore ==
    \A handler \in {"set_thread", "set_tolerance"}, i \in KnownFaces :
        (/\ doc # "None"
         /\ IntId(i) \in DOMAIN face_meta
         /\ DOMAIN face_meta[IntId(i)] = {AttrOf(handler)})
        => face_hashes[i + 1] \notin DOMAIN SetResult(handler, <<Item(IntId(i), "null")>>).store

\* the session is empty and the caller has an error
RolledBack(o) == o.session = Reset /\ IsError(o)

\* C3 (load failure rollback): whenever the loader fails in a load entry
\* point (upload, get_model, test_sample, test_cube, the load inside the
\* purge), the session ends empty (no document, no faces, no fingerprints,
\* an empty metadata map, no document identifier) and the caller receives
\* an error.
C3_FailedLoadLeavesEmptySession ==
    /\ \A f \in UploadFiles : LoadFails(f) => RolledBack(UploadResult(f))
    /\ \A u \in DOMAIN uploads : LoadFails(uploads[u]) => RolledBack(GetModelResult(u))
    /\ (sample_file # NoFile /\ LoadFails(sample_file)) => RolledBack(TestSampleResult)
    /\ RolledBack(TestCubeResult(FALSE))
    /\ \A u \in Stems, scope \in Scopes :
          (model_uuid # u /\ ResolveFile(u) # NoFile /\ LoadFails(ResolveFile(u)))
          => RolledBack(ClearMetadata(u, scope))

\* reloading restores the in-memory records of the faces with a known
\* fingerprint: the same record, and none where there was none
Restores(reloaded) ==
    \A i \in KnownFaces :
        /\ IntId(i) \in DOMAIN reloaded <=> IntId(i) \in DOMAIN face_meta
        /\ MapGet(reloaded, IntId(i)) = MapGet(face_meta, IntId(i))

\* the file the loaded document came from, when only set requests were
\* served since that load and the file carries no embedded payload
EditedSinceLoadOf(f) ==
    /\ trail \in {"loaded", "edited"}
    /\ doc = f.geom
    /\ ExtractMeta(f.text) = EmptyMap

\* C4 (annotations survive reload): when only set requests were served
\* since a document was loaded from a file without embedded payload,
\* reloading that document (get_model of its identifier, test_sample for
\* the sample) hydrates, for every face with a known fingerprint, exactly
\* the record the face had in memory before the reload, and none if it had
\* none.
C4_ReloadRestoresRecords ==
    /\ \A u \in DOMAIN uploads :
          (model_uuid = u /\ EditedSinceLoadOf(uploads[u]))
          => Restores(GetModelResult(u).session.face_meta)
    /\ (model_uuid = "sample" /\ "sample" \notin DOMAIN uploads
        /\ EditedSinceLoadOf(sample_file))
       => Restores(TestSampleResult.session.face_meta)

\* what C5 expects of the outcome o of one well-formed item of the handler
\* on the in-range face i
PersistsOnSet(o, handler, i) ==
    LET record == MapPut(MapGet(face_meta, IntId(i)), AttrOf(handler),
                         AttrValue(AttrOf(handler)))
    IN /\ o.session.face_meta = MapPut(face_meta, IntId(i), record)
       /\ IF i \in KnownFaces
          THEN o.store = MapPut(store, face_hashes[i + 1],
                                [meta |-> record, raw |-> face_raws[i + 1]])
          ELSE o.store = store

C8_ExportAfterPurgeEmbedsNothing ==
    (trail = "purged" /\ doc # "None")
    => /\ face_meta = EmptyMap
       /\ ExtractMeta(ExportResult(TRUE).resp.file) = EmptyMap

-----------------------------------------------------------------------------
(* Properties of a batch, checked on the request SpecBatch records *)

\* the item names no face: its index is missing, negative or not below the
\* number of faces
IndexSkipped(item) ==
    \/ item.face_id.k = "none"
    \/ item.face_id.k = "int"
       /\ (item.face_id.v < 0 \/ item.face_id.v >= Len(face_shapes))

\* the item names a face by an integer index and carries a well-formed
\* value, or null
Applicable(item) ==
    /\ item.face_id.k = "int"
    /\ item.face_id.v \in Faces
    /\ item.value \in {"null", "ok"}

\* the loop of the recorded handler over the list updates, from the
\* metadata map and the store the recorded request found
Replay(updates) ==
    Loop(last.handler, Run(last.face_meta, last.store, 0, 200), updates, 1)

\* the recorded request succeeded and left what its applicable items,
\* applied in order, leave
AppliedTheApplicable ==
    LET r == Replay(SelectSeq(last.updates, Applicable))
    IN /\ last.code = 200
       /\ face_meta = r.face_meta
       /\ store = r.store
       /\ last.count = r.count

\* C6 (batch partial tolerance): in a batch whose items either name no face
\* (index missing, negative or >= the number of faces) or are well formed,
\* the items that name no face change neither the metadata map nor the
\* store, the others are applied in order, and the request reports success.
C6_BatchSkipsBadIndices ==
    (/\ last.handler \in Handlers
     /\ doc # "None"
     /\ \A n \in 1..Len(last.updates) :
           IndexSkipped(last.updates[n]) \/ Applicable(last.updates[n]))
    => AppliedTheApplicable

\* C6 witness: a batch whose first item has an index out of range and whose
\* second item sets a value was served with success and changed the
\* metadata map and the store
C6_Witness ==
    /\ last.handler \in Handlers
    /\ last.code = 200
    /\ Len(last.updates) = 2
    /\ last.updates[1].face_id.k = "int"
    /\ IndexSkipped(last.updates[1])
    /\ Applicable(last.updates[2])
    /\ last.updates[2].value = "ok"
    /\ face_meta # last.face_meta
    /\ store # last.store

\* C7 (malformed items are skipped per item): in any batch, an item with a
\* malformed value (a colour that cannot be converted, a thread or tolerance
\* that is no mapping) or a face index that is no integer is skipped on its
\* own: the other items are applied in order and the request reports
\* success.
C7_BatchSkipsMalformedItems ==
    (last.handler \in Handlers /\ doc # "None") => AppliedTheApplicable

-----------------------------------------------------------------------------
(* Properties of the file clean-up, checked on SpecStrip *)

\* C9 (strip completeness): from a file in which the exporter embedded a
\* metadata map by all three strategies, once the purge has stripped it,
\* extraction returns the empty map.
C9_StripCompleteness ==
    (s_src = "embed" /\ s_pc = "extracted") => s_out = EmptyMap

\* C9 witness: the file held a non-empty map, which extraction returned
\* before the strip, and the strip and the extraction after it have run
C9_Witness ==
    /\ s_src = "embed"
    /\ s_pc = "extracted"
    /\ s_rec # EmptyMap
    /\ ExtractMeta(s_orig) = s_rec
    /\ s_text # s_orig
    /\ s_out = EmptyMap

\* the positions of t inside a description tag: from "[SVFM:" to a "]"
\* with no quote and no entity terminator in between
TagChars(t) ==
    {i \in 1..Len(t) :
        \E a \in 1..i, b \in i..Len(t) :
            /\ t[a] = TagOpen /\ t[b] = TagClose
            /\ \A j \in (a + 1)..(b - 1) : t[j] \notin {Quote, ";"}}

\* the positions of t inside a comment block, from its start marker to an
\* end marker
CommentChars(t) ==
    {i \in 1..Len(t) :
        \E a \in 1..i, b \in i..Len(t) : t[a] = MetaStart /\ t[b] = MetaEnd}

\* the positions of t inside the payload string of a metadata entity
PayloadChars(t) ==
    {i \in 1..Len(t) :
        \E a \in 1..i :
            EntityMatch(t, a).ok /\ EntityMatch(t, a).from <= i /\ i < EntityMatch(t, a).to}

\* the positions of t the strip removes
Removed(t) == (1..Len(t)) \ Range(StripKeep(t))

\* C10 (strip is byte-range safe): for every file text, the strip removes
\* only characters of a description tag, of a comment block or of the
\* payload string of a metadata entity, and keeps every other character in
\* its original order.
C10_StripByteRangeSafe ==
    s_pc = "stripped"
    => /\ Removed(s_orig) \subseteq
             (TagChars(s_orig) \cup CommentChars(s_orig) \cup PayloadChars(s_orig))
       /\ \A n \in 1..(Len(StripKeep(s_orig)) - 1) :
             StripKeep(s_orig)[n] < StripKeep(s_orig)[n + 1]
       /\ s_text = Select(s_orig, StripKeep(s_orig))

-----------------------------------------------------------------------------
(* Properties of the session and of single requests, checked on Spec *)

\* C11 (session shape): in every reachable state every key of the in-memory
\* metadata map is an integer index of a face of the current face list, and
\* the face list, the fingerprint list and the raw-descriptor list have the
\* same length.
C11_SessionShape ==
    /\ Len(face_hashes) = Len(face_shapes)
    /\ Len(face_raws) = Len(face_shapes)
    /\ \A k \in DOMAIN face_meta : k.k = "int" /\ k.v \in Faces

\* the store entries that differ from those of the current store
Written(st) == {h \in DOMAIN st : h \notin DOMAIN store \/ st[h] # store[h]}

\* C19 (no empty or unidentified record is kept): in every reachable state
\* no key of the in-memory metadata map is mapped to an empty record, and a
\* set request writes to the store no empty record and no entry keyed by an
\* empty or "unknown" fingerprint.
C19_NoEmptyOrUnidentified ==
    /\ \A k \in DOMAIN face_meta : face_meta[k] # EmptyMap
    /\ \A handler \in Handlers, u \in Singles :
          LET written == SetResult(handler, u).store
          IN \A h \in Written(written) : Known(h) /\ written[h].meta # EmptyMap

\* C19 witness: after set requests only, a face whose fingerprint is empty
\* or "unknown" holds a record of one attribute that the store does not
\* hold, and a set request with null for that attribute leaves the face
\* without record
C19_Witness ==
    /\ trail = "edited"
    /\ DOMAIN store \subseteq {face_hashes[j + 1] : j \in KnownFaces}
    /\ \E i \in Faces \ KnownFaces, handler \in {"set_thread", "set_tolerance"} :
          /\ IntId(i) \in DOMAIN face_meta
          /\ DOMAIN face_meta[IntId(i)] = {AttrOf(handler)}
          /\ IntId(i) \notin
                DOMAIN SetResult(handler, <<Item(IntId(i), "null")>>).session.face_meta

\* the part the file of the document uuid describes, "none" when the
\* identifier names no file
PartOf(uuid) == ResolveFile(uuid).geom

\* C21 (the document identifier matches the loaded faces): in every
\* reachable state in which a document is loaded and the session holds a
\* document identifier, the identifier names a file on the server that
\* describes the part whose faces and fingerprints the session holds, so
\* that a purge with scope db addressed by it deletes the known fingerprints
\* of that part.
C21_IdentifierNamesLoadedFaces ==
    (doc # "None" /\ model_uuid # "None")
    => /\ PartOf(model_uuid) = doc
       /\ face_hashes = Geometry(PartOf(model_uuid)).hashes
       /\ ClearMetadata(model_uuid, "db").store
             = DeleteFaces(store, SelectSeq(Geometry(PartOf(model_uuid)).hashes, Known))

\* C22 (a request for a document that does not exist leaves the active
\* session intact): while a document is loaded, a get_model or a purge
\* request with an identifier whose file is not on the server answers 404
\* and leaves the document, its faces, fingerprints, raw descriptors,
\* metadata map and document identifier as they were.
C22_NotFoundKeepsSession ==
    doc # "None"
    => /\ \A u \in Stems :
             u \notin DOMAIN uploads
             => /\ GetModelResult(u).resp.code = 404
                /\ GetModelResult(u).session = Current
       /\ \A u \in Stems, scope \in Scopes :
             ResolveFile(u) = NoFile
             => /\ ClearMetadata(u, scope).resp.code = 404
                /\ ClearMetadata(u, scope).session = Current

-----------------------------------------------------------------------------
(* Properties of a purge, checked on the request SpecPurge records *)

Purged == last.handler = "admin_clear_metadata"

PurgedOk == Purged /\ last.resp.code = 200

\* the file of the document the recorded purge names, as the purge found
\* it, and as it is now
FoundFile ==
    IF last.args.uuid \in DOMAIN last.uploads THEN last.uploads[last.args.uuid]
    ELSE IF last.args.uuid = "sample" THEN last.sample_file
    ELSE NoFile

FileNow ==
    IF last.args.uuid \in DOMAIN uploads THEN uploads[last.args.uuid]
    ELSE IF last.args.uuid = "sample" THEN sample_file
    ELSE NoFile

\* the known fingerprints of the faces of the document the purge names
OwnFingerprints ==
    IF FoundFile.geom \in GeometryNames
    THEN {h \in Range(Geometry(FoundFile.geom).hashes) : Known(h)}
    ELSE {}

\* the store entries under the fingerprints hs are what the purge found
SameEntries(hs) ==
    \A h \in hs : h \in DOMAIN store /\ store[h] = last.store[h]

\* C12 (purge scope db is exact): after a successful purge with scope db
\* for a document with a readable file, the store holds no entry under a
\* known fingerprint of a face of that document, and every entry under any
\* other fingerprint is as the purge found it.
C12_PurgeDbExact ==
    (PurgedOk /\ last.args.scope = "db" /\ FoundFile.geom \in GeometryNames)
    => /\ DOMAIN store \cap OwnFingerprints = {}
       /\ DOMAIN store \subseteq DOMAIN last.store
       /\ SameEntries(DOMAIN last.store \ OwnFingerprints)

\* the file of the named document exists and holds what the strip leaves
\* of the text the purge found
FileStripped ==
    /\ FoundFile # NoFile
    /\ FileNow = File(FoundFile.geom, StripText(FoundFile.text))

\* C13 (purge scope all is a global wipe): after a successful purge with
\* scope all the store has no entry at all, whatever document an entry was
\* written for, and the file of the named document has been stripped.
C13_PurgeAllWipes ==
    (PurgedOk /\ last.args.scope = "all") => (store = EmptyMap /\ FileStripped)

\* C13 witness: a purge with scope all succeeded on a store that held
\* entries of other documents and on a file that held a payload, and the
\* store is empty and the file changed
C13_Witness ==
    /\ PurgedOk
    /\ last.args.scope = "all"
    /\ OwnFingerprints # {}
    /\ DOMAIN last.store \ OwnFingerprints # {}
    /\ ExtractMeta(FoundFile.text) # EmptyMap
    /\ store = EmptyMap
    /\ FileNow.text # FoundFile.text
    /\ ExtractMeta(FileNow.text) = EmptyMap

\* the recorded purge got as far as the file clean-up: it named a document
\* whose file exists, with a scope that covers the file, and the document
\* was the session's or was loaded
StripRan ==
    /\ Purged
    /\ last.args.scope \in {"file", "all"}
    /\ last.args.uuid # "None"
    /\ FoundFile # NoFile
    /\ (last.session.model_uuid = last.args.uuid \/ ~LoadFails(FoundFile))

\* C17 (residue is reported, not fatal): when the extraction re-run after
\* the strip of a purge with scope file or all still finds metadata in the
\* file, the purge still clears the in-memory metadata map and answers with
\* its success payload.
C17_ResidueNotFatal ==
    (StripRan /\ ExtractMeta(StripText(FoundFile.text)) # EmptyMap)
    => /\ last.resp.code = 200
       /\ face_meta = EmptyMap
       /\ FileStripped

\* C17 witness: a purge stripped a file from which metadata can still be
\* extracted, found records in memory and left none, and answered ok
C17_Witness ==
    /\ StripRan
    /\ ExtractMeta(FileNow.text) # EmptyMap
    /\ FileNow.text # FoundFile.text
    /\ last.session.face_meta # EmptyMap
    /\ face_meta = EmptyMap
    /\ last.resp.code = 200

\* C18 (purge scopes touch only their own target): a purge with scope file
\* leaves every store entry as it found it, and a purge with scope db leaves
\* the content of the on-disk file of the named document, and of every
\* other file, as it found it, whatever the purge answers.
C18_ScopesKeepTheirTarget ==
    /\ (Purged /\ last.args.scope = "file") => store = last.store
    /\ (Purged /\ last.args.scope = "db")
       => (FileNow = FoundFile /\ uploads = last.uploads /\ sample_file = last.sample_file)

\* C18 witness: a purge with scope file rewrote the file of a document of
\* which the store holds a record, and the store is as it was
C18_Witness ==
    /\ PurgedOk
    /\ last.args.scope = "file"
    /\ FileNow.text # FoundFile.text
    /\ DOMAIN last.store \cap OwnFingerprints # {}
    /\ last.session.face_hashes # <<>>
    /\ store = last.store

\* C20 (a purge that returns an error leaves the store unchanged): when the
\* recorded purge answered with an error (missing identifier, model not
\* found, load failure, STEP file not found), every store entry it found is
\* still there, unchanged.
C20_FailedPurgeKeepsStore ==
    (Purged /\ last.resp.code # 200) => SameEntries(DOMAIN last.store)

-----------------------------------------------------------------------------
(* Properties of the requests SpecFrame records *)

\* the session, the store and the files are what the recorded request found
NothingChanged ==
    /\ Current = last.session
    /\ store = last.store
    /\ uploads = last.uploads
    /\ sample_file = last.sample_file

NeedsDocument == Handlers \cup {"export_step", "get_holes"}

\* C14 (NotLoaded): a set_color, set_thread, set_tolerance, export or
\* get_holes request that finds no document loaded returns an error and
\* changes nothing in the session, the store or the files.
C14_NotLoadedChangesNothing ==
    (last.handler \in NeedsDocument /\ last.session.doc = "None")
    => (last.resp.code # 200 /\ NothingChanged)

\* C14 witness: a set request with a well-formed item for face 0 was
\* answered with an error while no document was loaded, the session still
\* naming a document and the store and the upload folder not empty
C14_Witness ==
    /\ last.handler \in Handlers
    /\ last.session.doc = "None"
    /\ last.args = <<Item(IntId(0), "ok")>>
    /\ last.resp.code = 400
    /\ model_uuid # "None"
    /\ store # EmptyMap
    /\ uploads # EmptyMap

\* C15 (export keeps its frame): an export request that finds a document
\* loaded leaves the store, the in-memory metadata map, the face, fingerprint
\* and raw-descriptor lists and the document identifier as it found them,
\* and the document stays loaded, whether the export succeeds or fails.
C15_ExportKeepsFrame ==
    (last.handler = "export_step" /\ last.session.doc # "None")
    => /\ store = last.store
       /\ Current = last.session
       /\ doc # "None"

\* C15 witness: an export failed on a loaded document with records in
\* memory and in the store, which are all still there
C15_Witness ==
    /\ last.handler = "export_step"
    /\ last.resp.code = 500
    /\ doc # "None"
    /\ face_meta # EmptyMap
    /\ face_meta = last.session.face_meta
    /\ store # EmptyMap
    /\ model_uuid # "None"

-----------------------------------------------------------------------------
(* Properties of get_holes, checked on the request SpecHoles records *)

HolesServed == last.handler = "get_holes" /\ last.resp.code = 200

Cylinders == {i \in Faces : face_shapes[i + 1].type = "cylinder"}

\* twice the radius, and twice the radius rounded to four decimals
Twice(r) == 2 * r

TwiceRounded(r) == Round4(2 * r)

\* the groups holding face i
GroupsOf(i) == {n \in 1..Len(last.resp.holes) : i \in Range(last.resp.holes[n].ids)}

\* the groups returned partition the cylindrical faces by the diameter D of
\* their radius: every cylindrical face is in one group, no other face is
\* in any, two faces share a group exactly when they have one diameter,
\* each count is the number of ids, the ids of a group ascend, and the
\* faces of a group have a smaller diameter than those of the next
GroupedBy(D(_)) ==
    LET holes == last.resp.holes
        G == 1..Len(holes)
        diameter(i) == D(face_shapes[i + 1].radius)
    IN /\ \A i \in Cylinders : Cardinality(GroupsOf(i)) = 1
       /\ \A i, j \in Cylinders : (GroupsOf(i) = GroupsOf(j)) <=> (diameter(i) = diameter(j))
       /\ \A n \in G :
             /\ Range(holes[n].ids) \subseteq Cylinders
             /\ holes[n].ids # <<>>
             /\ holes[n].count = Len(holes[n].ids)
             /\ \A a \in 1..(Len(holes[n].ids) - 1) : holes[n].ids[a] < holes[n].ids[a + 1]
       /\ \A n \in 1..(Len(holes) - 1) :
             \A i \in Range(holes[n].ids), j \in Range(holes[n + 1].ids) :
                 diameter(i) < diameter(j)

\* C16 (get_holes groups exactly the cylindrical faces), as stated: the
\* groups partition the cylindrical faces of the loaded document by
\* diameter, twice the radius; no other face appears, each count is the
\* number of ids, ids ascend within a group and groups ascend by diameter.
C16_HolesByDiameter == HolesServed => GroupedBy(Twice)

\* C16 as amended: the same, the diameter of a face being twice its radius
\* rounded to four decimals, which is the diameter each group reports.
C16_HolesByRoundedDiameter ==
    HolesServed
    => /\ GroupedBy(TwiceRounded)
       /\ \A n \in 1..Len(last.resp.holes) : \A i \in Range(last.resp.holes[n].ids) :
             last.resp.holes[n].diameter = TwiceRounded(face_shapes[i + 1].radius)

\* C16 witness: two groups were returned for a part with a plane, the
\* first face of the part being in the second group, and one group holds
\* two faces of different radius
C16_Witness ==
    /\ HolesServed
    /\ Len(last.resp.holes) = 2
    /\ Cylinders # Faces
    /\ 0 \in Range(last.resp.holes[2].ids)
    /\ \E n \in 1..2 : \E i, j \in Range(last.resp.holes[n].ids) :
          face_shapes[i + 1].radius # face_shapes[j + 1].radius

====
